---- MODULE Spec2Model ----
(***************************************************************************)
(* CasaDNS dynamic-DNS updater (custom_components/casadns).                *)
(*                                                                         *)
(* The engine CasaDNSManager is modelled as a state machine: its fields,   *)
(* the update cycles (coroutines) that are in flight, each suspended at    *)
(* one of its three network awaits, and the timer registrations.  Text     *)
(* (response bodies, addresses, domain lists) is a sequence of one-        *)
(* character strings, so that strip(), lower(), split() and endswith()     *)
(* are computed as Python computes them.  An Optional value is a set with  *)
(* at most one element: None is {} and a present value x is {x}.           *)
(***************************************************************************)
EXTENDS Integers, Sequences, FiniteSets, TLC

(***************************************************************************)
(* Bounds of the model.                                                    *)
(***************************************************************************)
\* update cycles that may be in flight at the same time
MaxCycles == 2
\* push attempts that complete (the logical clock read by utcnow())
MaxClock == 2
\* callbacks registered with register_listener()
MaxListeners == 2
\* timer registrations that may be active at the same time
MaxTimers == 2
\* pieces a raw domain text is put together from
MaxPieces == 3
\* config entries of the integration
MaxEntries == 3
\* forced cycles counted on one manager
MaxRuns == 3

(***************************************************************************)
(* Optional values and text.                                               *)
(***************************************************************************)
None == {}
Some(x) == {x}
Get(o) == CHOOSE x \in o : TRUE

\* Python truthiness of an Optional[str]: None and "" are falsy.
Truthy(o) == o # None /\ o # Some(<<>>)

\* A text is a sequence of characters.  An ASCII character is the string
\* of that one character; a character outside ASCII is the string "U+" and
\* the four hexadecimal digits of its code point, so that a text reads the
\* same in whatever encoding the module is read.  The grave accent, which
\* no string of a module can hold, is written "U+0060" too.
\*
\* Characters str.strip() removes, the 29 for which str.isspace() holds:
\* 0x09 to 0x0d, 0x1c to 0x1f, the space, and the spaces outside ASCII.
Whitespace ==
    {"\t", "\n", "", "\f", "\r", "", "", "", "", " ",
     "U+0085", "U+00A0", "U+1680",
     "U+2000", "U+2001", "U+2002", "U+2003", "U+2004", "U+2005", "U+2006",
     "U+2007", "U+2008", "U+2009", "U+200A",
     "U+2028", "U+2029", "U+202F", "U+205F", "U+3000"}

RECURSIVE LStrip(_)
LStrip(s) ==
    IF s # <<>> /\ Head(s) \in Whitespace THEN LStrip(Tail(s)) ELSE s

RECURSIVE RStrip(_)
RStrip(s) ==
    IF s # <<>> /\ s[Len(s)] \in Whitespace
    THEN RStrip(SubSeq(s, 1, Len(s) - 1))
    ELSE s

\* str.strip()
Strip(s) == RStrip(LStrip(s))

\* The characters of the texts of this model: the printable ASCII
\* characters, the characters of Whitespace, and of the cased characters
\* outside ASCII one of each kind str.lower() knows: U+00C9, lowered to
\* U+00E9; U+212A (KELVIN SIGN), lowered to the ASCII "k"; and U+0130,
\* lowered to the two characters "i" and U+0307.
Printable ==
    {" ", "!", "\"", "#", "$", "%", "&", "'", "(", ")", "*", "+", ",", "-",
     ".", "/", "0", "1", "2", "3", "4", "5", "6", "7", "8", "9", ":", ";",
     "<", "=", ">", "?", "@", "A", "B", "C", "D", "E", "F", "G", "H", "I",
     "J", "K", "L", "M", "N", "O", "P", "Q", "R", "S", "T", "U", "V", "W",
     "X", "Y", "Z", "[", "\\", "]", "^", "_", "U+0060", "a", "b", "c", "d",
     "e", "f", "g", "h", "i", "j", "k", "l", "m", "n", "o", "p", "q", "r",
     "s", "t", "u", "v", "w", "x", "y", "z", "{", "|", "}", "~"}
Alphabet ==
    Printable \cup Whitespace
        \cup {"U+00C9", "U+00E9", "U+0130", "U+0307", "U+212A"}

\* str.lower() on the texts over Alphabet.  LowerChar(c) is the text the
\* character c is lowered to, of one character or of two; it is defined on
\* Alphabet only.
UpperCase ==
    <<"A", "B", "C", "D", "E", "F", "G", "H", "I", "J", "K", "L", "M",
      "N", "O", "P", "Q", "R", "S", "T", "U", "V", "W", "X", "Y", "Z">>
LowerCase ==
    <<"a", "b", "c", "d", "e", "f", "g", "h", "i", "j", "k", "l", "m",
      "n", "o", "p", "q", "r", "s", "t", "u", "v", "w", "x", "y", "z">>
Uppers ==
    {UpperCase[i] : i \in DOMAIN UpperCase}
        \cup {"U+00C9", "U+0130", "U+212A"}
LowerChar(c) ==
    CASE \E i \in DOMAIN UpperCase : UpperCase[i] = c ->
            <<LowerCase[CHOOSE i \in DOMAIN UpperCase : UpperCase[i] = c]>>
      [] c = "U+00C9" -> <<"U+00E9">>
      [] c = "U+212A" -> <<"k">>
      [] c = "U+0130" -> <<"i", "U+0307">>
      [] c \in Alphabet \ Uppers -> <<c>>
RECURSIVE Lower(_)
Lower(s) ==
    IF s = <<>> THEN <<>> ELSE LowerChar(Head(s)) \o Lower(Tail(s))

\* str.endswith(suffix)
EndsWith(s, suffix) ==
    /\ Len(s) >= Len(suffix)
    /\ SubSeq(s, Len(s) - Len(suffix) + 1, Len(s)) = suffix

\* str.split(sep) for a one-character separator: the items between the
\* separators, empty ones kept
RECURSIVE SplitFrom(_, _, _)
SplitFrom(s, sep, item) ==
    IF s = <<>>
    THEN <<item>>
    ELSE IF Head(s) = sep
         THEN <<item>> \o SplitFrom(Tail(s), sep, <<>>)
         ELSE SplitFrom(Tail(s), sep, Append(item, Head(s)))
Split(s, sep) == SplitFrom(s, sep, <<>>)

\* sep.join(parts)
RECURSIVE Join(_, _)
Join(parts, sep) ==
    IF parts = <<>>
    THEN <<>>
    ELSE IF Len(parts) = 1
         THEN parts[1]
         ELSE parts[1] \o <<sep>> \o Join(Tail(parts), sep)

(***************************************************************************)
(* config_flow._normalize_domains.                                         *)
(***************************************************************************)
DomainSuffix == <<".", "c", "a", "s", "a", "d", "n", "s", ".", "e", "u">>

\* one item of the split: stripped and lowered, the suffix cut off once
NormalizeLabel(item) ==
    LET label == Lower(Strip(item))
    IN IF label # <<>> /\ EndsWith(label, DomainSuffix)
       THEN SubSeq(label, 1, Len(label) - Len(DomainSuffix))
       ELSE label

\* the loop over the items: empty labels are skipped
RECURSIVE NormalizeParts(_)
NormalizeParts(items) ==
    IF items = <<>>
    THEN <<>>
    ELSE LET label == NormalizeLabel(Head(items))
         IN IF label = <<>>
            THEN NormalizeParts(Tail(items))
            ELSE <<label>> \o NormalizeParts(Tail(items))

NormalizeDomains(text) == Join(NormalizeParts(Split(text, ",")), ",")

\* the domain texts a user enters: up to MaxPieces of these pieces in a row
Pieces ==
    { <<"a">>, <<"B">>, <<"U+0130">>, <<" ">>, <<",">>, DomainSuffix,
      <<".", "C", "a", "s", "a", "D", "N", "S", ".", "e", "u">> }

RECURSIVE TextsOf(_)
TextsOf(n) ==
    IF n = 0
    THEN {<<>>}
    ELSE LET shorter == TextsOf(n - 1)
         IN shorter \cup {t \o p : t \in shorter, p \in Pieces}

RawInputs == TextsOf(MaxPieces)

(***************************************************************************)
(* The network: what a request can end in.                                 *)
(***************************************************************************)
HttpReply(status, text) ==
    [kind |-> "http", status |-> status, text |-> text, err |-> ""]
ErrorReply(msg) ==
    [kind |-> "error", status |-> 0, text |-> <<>>, err |-> msg]
RaiseReply(msg) ==
    [kind |-> "raise", status |-> 0, text |-> <<>>, err |-> msg]

\* the request ends in an exception that is neither ClientError nor
\* asyncio.TimeoutError, such as the UnicodeDecodeError of resp.text() on a
\* body that does not decode: no except clause of the request catches it
Escapes(reply) == reply.kind = "raise"

Ip4A == <<"1", ".", "2", ".", "3", ".", "4">>
Ip6A == <<":", ":", "1">>

\* replies of https://ipv4.api.ipify.org
Ipv4Replies ==
    { ErrorReply("timeout"),
      RaiseReply("decode"),
      HttpReply(503, <<"b", "u", "s", "y">>),
      HttpReply(200, Ip4A),
      HttpReply(200, Ip4A \o <<"\r", "\n">>),
      HttpReply(200, <<>>) }

\* replies of https://ipv6.api.ipify.org
Ipv6Replies ==
    { ErrorReply("timeout"),
      RaiseReply("decode"),
      HttpReply(503, <<"b", "u", "s", "y">>),
      HttpReply(200, Ip6A),
      HttpReply(200, <<" ">> \o Ip6A \o <<"U+00A0", "\n">>),
      HttpReply(200, <<>>) }

\* replies of https://casadns.eu/update
PushReplies ==
    { ErrorReply("timeout"),
      RaiseReply("decode"),
      HttpReply(200, <<"O", "K">>),
      HttpReply(500, <<"e", "r", "r">>) }

\* the configured domains and token (entry data, options overriding it)
ConfDomains == <<"h", "o", "m", "e">>
ConfToken == <<"t", "0", "k">>

\* what the token field of the form can hold: nothing, "", a token
Tokens == {None, Some(<<>>), Some(ConfToken)}

\* the config entries of the integration
Entries == 1..MaxEntries

\* the callbacks sensors register; "cb_raises" throws when invoked
Callbacks == {"cb_ok", "cb_raises"}
CallbackRaises(cb) == cb = "cb_raises"

(***************************************************************************)
(* State.                                                                  *)
(***************************************************************************)
VARIABLES
    last_ip,        \* _last_ip: primary address
    last_ipv4,      \* _last_ipv4
    last_ipv6,      \* _last_ipv6
    last_status,    \* _last_status
    last_error,     \* _last_error
    last_updated,   \* _last_updated
    listeners,      \* _listeners
    unsub_timer,    \* _unsub_timer: the registration async_stop() cancels
    timers,         \* active registrations of async_track_time_interval
    double_start,   \* history: async_start() ran while a registration was active
    cycles,         \* the async_update_dns() coroutines, by slot
    prev,           \* history: the cycle that returned last, while the
                    \* next call can still run right after it, alone
    notified,       \* history: the callbacks the last step invoked, in order
    read,           \* history: the fields those callbacks found in the engine
    raised,         \* history: the last step ended a cycle in an exception
                    \* that left async_update_dns()
    now,            \* the clock dt_util.utcnow() reads
    raw,            \* config flow: the domain text the user entered
    token,          \* config flow: the token the user entered, if any
    errors,         \* config and options flow: the error the form shows
    once,           \* config flow: the stored, normalized domains
    twice,          \* options flow: the stored domains submitted again
    loaded,         \* hass.data[DOMAIN]: the entries that hold a manager
    service,        \* the entry whose manager update_now is bound to, if any
    runs,           \* forced cycles started on each entry's manager
    registered,     \* the entries whose manager holds a timer registration
    phase           \* where the host is with each entry: "none", "starting"
                    \* (async_setup_entry awaits async_start), "forwarding"
                    \* (it awaits async_forward_entry_setups), "set_up",
                    \* "unloading" (async_unload_entry awaits
                    \* async_unload_platforms), "failed" (set-up raised)

engine == <<last_ip, last_ipv4, last_ipv6, last_status, last_error,
            last_updated>>
sched == <<unsub_timer, timers, double_start>>
flow == <<raw, token, errors, once, twice>>
host == <<loaded, service, runs, registered, phase>>
vars == <<last_ip, last_ipv4, last_ipv6, last_status, last_error,
          last_updated, listeners, unsub_timer, timers, double_start,
          cycles, prev, notified, read, raised, now, raw, token, errors,
          once,
          twice, loaded, service, runs, registered, phase>>

Slots == 1..MaxCycles

\* a slot no coroutine occupies; also "no cycle has returned yet"
Idle ==
    [pc |-> "idle", force |-> FALSE, ipv4 |-> None, ipv6 |-> None,
     same |-> FALSE, pushes |-> 0, solo |-> TRUE]

\* prev when no cycle qualifies
NoCycle ==
    [force |-> FALSE, ipv4 |-> None, ipv6 |-> None, same |-> FALSE,
     pushes |-> 0, paired |-> FALSE, first |-> 0, absent |-> FALSE]

\* prev when the cycle that returned last ran alone and discovered nothing
AbsentCycle == [NoCycle EXCEPT !.absent = TRUE]

\* prev holds a cycle that ran alone and discovered an address
Counted(p) == p # NoCycle /\ p # AbsentCycle

InFlight(s) == cycles[s].pc # "idle"
Running == {s \in Slots : InFlight(s)}

(***************************************************************************)
(* Pure steps of async_update_dns() and its helpers.                       *)
(***************************************************************************)
\* _async_get_public_ips, one request: the stripped body of a 200 reply,
\* None for any other status and for ClientError / TimeoutError
GetIp(reply) ==
    IF reply.kind = "http" /\ reply.status = 200
    THEN Some(Strip(reply.text))
    ELSE None

\* the guard testing the IPv4 address alone for a missing IPv6 one
BothAbsent_Ipv4Twice(ipv4, ipv6) == ipv4 = None /\ ipv4 = None /\ ipv6 # None

\* "if ipv4 is None and ipv6 is None": the discovery-failure guard
BothAbsent(ipv4, ipv6) == ipv4 = None /\ ipv6 = None

\* the comparison without "not force": a forced cycle is skipped too
IpsUnchanged_IgnoresForce(force, ipv4, ipv6) ==
    last_ipv4 = ipv4 /\ last_ipv6 = ipv6

\* the comparison taking an absent address for equal to any stored one
IpsUnchanged_AbsentMatches(force, ipv4, ipv6) ==
    /\ ~force
    /\ (ipv4 = None \/ last_ipv4 = ipv4)
    /\ (ipv6 = None \/ last_ipv6 = ipv6)

\* the comparison on the IPv4 address alone
IpsUnchanged_Ipv4Only(force, ipv4, ipv6) ==
    ~force /\ last_ipv4 = ipv4

\* "not force and self._last_ipv4 == ipv4 and self._last_ipv6 == ipv6"
IpsUnchanged(force, ipv4, ipv6) ==
    ~force /\ last_ipv4 = ipv4 /\ last_ipv6 = ipv6

\* "current_primary = ipv4 or ipv6"
CurrentPrimary(ipv4, ipv6) == IF Truthy(ipv4) THEN ipv4 ELSE ipv6

\* the callback invoked outside any try: what it raises leaves the loop
Caught_NoTry(cb) == FALSE

\* "except Exception" around callback(): what a callback raises is caught
\* and logged
Caught(cb) == TRUE

\* the loop over list(self._listeners) from position i on; invoked lists
\* the callbacks called so far, raised tells whether an exception left the
\* loop
RECURSIVE NotifyFrom(_, _, _)
NotifyFrom(ls, i, invoked) ==
    IF i > Len(ls)
    THEN [invoked |-> invoked, raised |-> FALSE]
    ELSE IF CallbackRaises(ls[i]) /\ ~Caught(ls[i])
         THEN [invoked |-> Append(invoked, ls[i]), raised |-> TRUE]
         ELSE NotifyFrom(ls, i + 1, Append(invoked, ls[i]))

NotifyListeners(ls) == NotifyFrom(ls, 1, <<>>)

\* the query string _async_call_casadns builds, as the sequence of its
\* <<name, value>> parameters; "if ipv4" and "if ipv6" test truthiness
PushParams(ipv4, ipv6) ==
    <<  <<"domains", ConfDomains>>, <<"token", ConfToken>>,
        <<"clear", <<"t", "r", "u", "e">> >>  >>
    \o (IF Truthy(ipv4) THEN << <<"ip", Get(ipv4)>> >>
        ELSE IF Truthy(ipv6) THEN << <<"ip", Get(ipv6)>> >>
        ELSE <<>>)
    \o (IF Truthy(ipv6) /\ Truthy(ipv4) THEN << <<"ipv6", Get(ipv6)>> >>
        ELSE IF Truthy(ipv6) /\ ~Truthy(ipv4) THEN << <<"ipv6", Get(ipv6)>> >>
        ELSE <<>>)

\* callbacks invoked ahead of the assignments to _last_ipv4, _last_ipv6 and
\* _last_ip
ListenerReads_Before(before, after) == before

\* what a callback invoked from the listener loop finds in the engine's
\* properties: the loop runs after the assignments, before the push
ListenerReads(before, after) == after

\* the fields _async_call_casadns leaves behind, as <<status, error, updated>>
PushOutcome(reply, time) ==
    IF reply.kind = "http"
    THEN <<Some(reply.status), None, Some(time)>>
    ELSE IF reply.kind = "error"
    THEN <<last_status, Some(reply.err), last_updated>>
    ELSE <<last_status, last_error, last_updated>>

(***************************************************************************)
(* Initial state: CasaDNSManager.__init__.                                 *)
(***************************************************************************)
EngineInit ==
    /\ last_ip = None
    /\ last_ipv4 = None
    /\ last_ipv6 = None
    /\ last_status = None
    /\ last_error = None
    /\ last_updated = None
    /\ listeners = <<>>
    /\ unsub_timer = None
    /\ timers = {}
    /\ double_start = FALSE
    /\ cycles = [s \in Slots |-> Idle]
    /\ prev = NoCycle
    /\ notified = <<>>
    /\ read = None
    /\ raised = FALSE
    /\ now = 0

\* no config entry is set up: hass.data holds no manager and update_now is
\* not registered
HostInit ==
    /\ loaded = {}
    /\ service = None
    /\ runs = [e \in Entries |-> 0]
    /\ registered = {}
    /\ phase = [e \in Entries |-> "none"]

Init ==
    /\ EngineInit
    /\ HostInit
    /\ raw = <<>>
    /\ token = Some(ConfToken)
    /\ errors = None
    /\ once = None
    /\ twice = None

(***************************************************************************)
(* Operations.                                                             *)
(***************************************************************************)
\* a call of async_update_dns(force): it runs up to its first await, the
\* IPv4 discovery request
StartCycle(force) ==
    /\ Running # Slots
    /\ LET s == CHOOSE t \in Slots \ Running :
                    \A u \in Slots \ Running : t <= u
       IN cycles' =
            [t \in Slots |->
                IF t = s
                THEN [Idle EXCEPT !.pc = "get4", !.force = force,
                                  !.solo = (Running = {})]
                ELSE IF InFlight(t)
                     THEN [cycles[t] EXCEPT !.solo = FALSE]
                     ELSE cycles[t]]
    /\ prev' = IF Running = {} /\ ~force THEN prev ELSE NoCycle

\* the coroutine in slot s returns; prev keeps it when it ran alone and
\* discovered an address, paired telling whether the cycle before it was
\* such a cycle too, not forced either and with the same discovery result,
\* and first the number of push requests that cycle issued
Return(s, rec) ==
    LET paired == /\ Counted(prev)
                  /\ ~prev.force /\ ~rec.force
                  /\ prev.ipv4 = rec.ipv4
                  /\ prev.ipv6 = rec.ipv6
    IN  /\ cycles' = [cycles EXCEPT ![s] = Idle]
        /\ prev' = IF ~rec.solo THEN NoCycle
                    ELSE IF rec.ipv4 = None /\ rec.ipv6 = None
                    THEN AbsentCycle
                    ELSE [force |-> rec.force, ipv4 |-> rec.ipv4,
                          ipv6 |-> rec.ipv6, same |-> rec.same,
                          pushes |-> rec.pushes, paired |-> paired,
                          first |-> IF paired THEN prev.pushes ELSE 0,
                          absent |-> FALSE]

\* the coroutine in slot s ends in an exception
Raise(s) ==
    /\ cycles' = [cycles EXCEPT ![s] = Idle]
    /\ prev' = NoCycle

\* register_listener(callback)
RegisterListener(cb) ==
    /\ Len(listeners) < MaxListeners
    /\ listeners' = Append(listeners, cb)
    /\ notified' = <<>>
    /\ read' = None
    /\ raised' = FALSE
    /\ UNCHANGED <<engine, sched, cycles, prev, now, flow, host>>

\* async_start(): registers the interval timer, keeps its unsubscribe
\* handle and runs the initial forced cycle
AsyncStart ==
    /\ Cardinality(timers) < MaxTimers
    /\ LET id == CHOOSE i \in (1..MaxTimers) \ timers :
                    \A j \in (1..MaxTimers) \ timers : i <= j
       IN /\ timers' = timers \cup {id}
          /\ unsub_timer' = Some(id)
    /\ double_start' = (double_start \/ timers # {})
    /\ notified' = <<>>
    /\ read' = None
    /\ raised' = FALSE
    /\ StartCycle(TRUE)
    /\ UNCHANGED <<engine, listeners, now, flow, host>>

\* a cancellation that leaves the registration in place
Unsubscribe_KeepsTimer(x) == timers

\* what async_stop() leaves of the registrations: it calls the handle it
\* holds, if any; x is the handle
Unsubscribe(x) == IF x # None THEN timers \ x ELSE timers

\* async_stop()
AsyncStop ==
    /\ timers' = Unsubscribe(unsub_timer)
    /\ unsub_timer' = None
    /\ notified' = <<>>
    /\ read' = None
    /\ raised' = FALSE
    /\ UNCHANGED <<engine, listeners, double_start, cycles, prev,
                   now, flow, host>>

\* _async_timer_callback: an active registration fires
TimerCallback(id) ==
    /\ id \in timers
    /\ StartCycle(FALSE)
    /\ notified' = <<>>
    /\ read' = None
    /\ raised' = FALSE
    /\ UNCHANGED <<engine, listeners, sched, now, flow, host>>

\* handle_update_now: the manual service call
HandleUpdateNow ==
    /\ StartCycle(TRUE)
    /\ notified' = <<>>
    /\ read' = None
    /\ raised' = FALSE
    /\ UNCHANGED <<engine, listeners, sched, now, flow, host>>

\* the IPv4 discovery request of the cycle in slot s ends; the coroutine
\* goes on to its second await, the IPv6 discovery request
Ipv4Response(s, reply) ==
    /\ cycles[s].pc = "get4"
    /\ IF Escapes(reply)
       THEN Raise(s)
       ELSE /\ cycles' = [cycles EXCEPT ![s].pc = "get6",
                                        ![s].ipv4 = GetIp(reply)]
            /\ UNCHANGED prev
    /\ raised' = Escapes(reply)
    /\ notified' = <<>>
    /\ read' = None
    /\ UNCHANGED <<engine, listeners, sched, now, flow, host>>

\* the IPv6 discovery request ends and async_update_dns runs, without
\* suspending, up to the push request of _async_call_casadns
Ipv6Response(s, reply) ==
    /\ cycles[s].pc = "get6"
    /\ LET ipv4 == cycles[s].ipv4
           ipv6 == GetIp(reply)
           seen == [cycles[s] EXCEPT
                        !.ipv6 = ipv6,
                        !.same = (last_ipv4 = ipv4 /\ last_ipv6 = ipv6)]
           note == NotifyListeners(listeners)
       IN IF Escapes(reply)
          THEN /\ Raise(s)
               /\ raised' = TRUE
               /\ notified' = <<>>
               /\ read' = None
               /\ UNCHANGED <<last_ip, last_ipv4, last_ipv6>>
          ELSE IF \/ BothAbsent(ipv4, ipv6)
                  \/ IpsUnchanged(cycles[s].force, ipv4, ipv6)
          THEN /\ Return(s, seen)
               /\ raised' = FALSE
               /\ notified' = <<>>
               /\ read' = None
               /\ UNCHANGED <<last_ip, last_ipv4, last_ipv6>>
          ELSE /\ last_ipv4' = ipv4
               /\ last_ipv6' = ipv6
               /\ last_ip' = CurrentPrimary(ipv4, ipv6)
               /\ notified' = note.invoked
               /\ read' = IF note.invoked = <<>> THEN None
                          ELSE Some(ListenerReads(engine,
                                   <<last_ip', last_ipv4', last_ipv6',
                                     last_status, last_error,
                                     last_updated>>))
               /\ raised' = note.raised
               /\ IF note.raised
                  THEN Raise(s)
                  ELSE /\ cycles' = [cycles EXCEPT ![s] =
                               [seen EXCEPT !.pc = "push",
                                            !.pushes = seen.pushes + 1]]
                       /\ UNCHANGED prev
    /\ UNCHANGED <<last_status, last_error, last_updated, listeners, sched,
                   now, flow, host>>

\* a push that is issued again when it fails
PushResponse_Retries(s, reply) ==
    /\ cycles[s].pc = "push"
    /\ now < MaxClock
    /\ now' = now + 1
    /\ LET out == PushOutcome(reply, now + 1)
       IN /\ last_status' = out[1]
          /\ last_error' = out[2]
          /\ last_updated' = out[3]
    /\ IF reply.kind = "error"
       THEN /\ cycles' = [cycles EXCEPT ![s].pushes = @ + 1]
            /\ UNCHANGED prev
       ELSE IF Escapes(reply) THEN Raise(s) ELSE Return(s, cycles[s])
    /\ raised' = Escapes(reply)
    /\ notified' = <<>>
    /\ read' = None
    /\ UNCHANGED <<last_ip, last_ipv4, last_ipv6, listeners, sched, flow,
                   host>>

\* the push request ends: the rest of _async_call_casadns, and the cycle
\* returns
PushResponse(s, reply) ==
    /\ cycles[s].pc = "push"
    /\ now < MaxClock
    /\ now' = now + 1
    /\ LET out == PushOutcome(reply, now + 1)
       IN /\ last_status' = out[1]
          /\ last_error' = out[2]
          /\ last_updated' = out[3]
    /\ IF Escapes(reply) THEN Raise(s) ELSE Return(s, cycles[s])
    /\ raised' = Escapes(reply)
    /\ notified' = <<>>
    /\ read' = None
    /\ UNCHANGED <<last_ip, last_ipv4, last_ipv6, listeners, sched, flow,
                   host>>

\* CasaDNSConfigFlow.async_step_user: the entered text is normalized; when
\* nothing is left of it, or else when the token is missing or empty, the
\* form is shown again with the error; otherwise the normalized text is
\* stored as the entry's domains
AsyncStepUser ==
    /\ once = None
    /\ errors = None
    /\ LET normalized_domains == NormalizeDomains(raw)
       IN IF normalized_domains = <<>>
          THEN errors' = Some("invalid_domains") /\ UNCHANGED once
          ELSE IF ~Truthy(token)
          THEN errors' = Some("invalid_token") /\ UNCHANGED once
          ELSE once' = Some(normalized_domains) /\ UNCHANGED errors
    /\ UNCHANGED <<engine, listeners, sched, cycles, prev, notified, read, raised,
                   now,
                   raw, token, twice, host>>

\* CasaDNSOptionsFlowHandler.async_step_init: the form comes filled in with
\* the stored domains and the user submits it as it is; when nothing is
\* left of the text after normalizing, the form is shown again with the
\* error
AsyncStepInit ==
    /\ once # None
    /\ twice = None
    /\ errors = None
    /\ LET normalized_domains == NormalizeDomains(Get(once))
       IN IF normalized_domains = <<>>
          THEN errors' = Some("invalid_domains") /\ UNCHANGED twice
          ELSE twice' = Some(normalized_domains) /\ UNCHANGED errors
    /\ UNCHANGED <<engine, listeners, sched, cycles, prev, notified, read, raised,
                   now,
                   raw, token, once, host>>

\* The logical clock is capped at MaxClock push attempts.  A cycle is begun
\* only while the clock has a tick left for every cycle in flight and for
\* the new one, so that every push request sent can end.
Budget == now + Cardinality(Running) < MaxClock

Next ==
    \/ \E cb \in Callbacks : RegisterListener(cb)
    \/ Budget /\ AsyncStart
    \/ AsyncStop
    \/ Budget /\ \E id \in 1..MaxTimers : TimerCallback(id)
    \/ Budget /\ HandleUpdateNow
    \/ \E s \in Slots, reply \in Ipv4Replies : Ipv4Response(s, reply)
    \/ \E s \in Slots, reply \in Ipv6Replies : Ipv6Response(s, reply)
    \/ \E s \in Slots, reply \in PushReplies : PushResponse(s, reply)

Spec == Init /\ [][Next]_vars

\* async_setup_entry(entry) up to its first suspension: a manager is made
\* and async_start() registers its timer and begins the forced startup
\* cycle, which suspends in the IPv4 request
AsyncSetupEntry(e) ==
    /\ phase[e] = "none"
    /\ registered' = registered \cup {e}
    /\ runs' = [runs EXCEPT ![e] = 1]
    /\ phase' = [phase EXCEPT ![e] = "starting"]
    /\ UNCHANGED <<engine, listeners, sched, cycles, prev, notified, read,
                   raised, now, flow, loaded, service>>

\* the startup cycle has returned and async_setup_entry goes on up to its
\* next suspension, in async_forward_entry_setups: the manager is stored
\* under the entry's id and update_now is registered with a handler bound
\* to this manager; registering replaces the handler a previous entry
\* registered
AsyncSetupEntryResume(e) ==
    /\ phase[e] = "starting"
    /\ loaded' = loaded \cup {e}
    /\ service' = Some(e)
    /\ phase' = [phase EXCEPT ![e] = "forwarding"]
    /\ UNCHANGED <<engine, listeners, sched, cycles, prev, notified, read,
                   raised, now, flow, runs, registered>>

\* the platforms are set up: async_setup_entry adds the reload listener
\* and returns True
AsyncSetupEntryReturn(e) ==
    /\ phase[e] = "forwarding"
    /\ phase' = [phase EXCEPT ![e] = "set_up"]
    /\ UNCHANGED <<engine, listeners, sched, cycles, prev, notified, read,
                   raised, now, flow, loaded, service, runs, registered>>

\* async_forward_entry_setups raises, which leaves async_setup_entry: the
\* manager stays stored and started, and the handler stays registered
AsyncSetupEntryForwardRaises(e) ==
    /\ phase[e] = "forwarding"
    /\ phase' = [phase EXCEPT ![e] = "failed"]
    /\ UNCHANGED <<engine, listeners, sched, cycles, prev, notified, read,
                   raised, now, flow, loaded, service, runs, registered>>

\* the startup cycle has ended in an exception, which leaves async_start()
\* and async_setup_entry: nothing is stored or registered, and the timer
\* registration stays; the entry is not set up again here
AsyncSetupEntryRaises(e) ==
    /\ phase[e] = "starting"
    /\ phase' = [phase EXCEPT ![e] = "failed"]
    /\ UNCHANGED <<engine, listeners, sched, cycles, prev, notified, read,
                   raised, now, flow, loaded, service, runs, registered>>

\* async_unload_entry(entry) up to its suspension in async_unload_platforms:
\* the entry's manager, if hass.data holds one, is stopped
AsyncUnloadEntry(e) ==
    /\ phase[e] = "set_up"
    /\ registered' = IF e \in loaded THEN registered \ {e} ELSE registered
    /\ phase' = [phase EXCEPT ![e] = "unloading"]
    /\ UNCHANGED <<engine, listeners, sched, cycles, prev, notified, read,
                   raised, now, flow, loaded, service, runs>>

\* async_unload_entry goes on: the manager is dropped from hass.data and
\* update_now is removed
AsyncUnloadEntryResume(e) ==
    /\ phase[e] = "unloading"
    /\ loaded' = loaded \ {e}
    /\ service' = None
    /\ runs' = [runs EXCEPT ![e] = 0]
    /\ phase' = [phase EXCEPT ![e] = "none"]
    /\ UNCHANGED <<engine, listeners, sched, cycles, prev, notified, read,
                   raised, now, flow, registered>>

\* the service update_now is called: the registered handler runs a forced
\* cycle on the manager it is bound to
CallUpdateNow ==
    /\ service # None
    /\ runs[Get(service)] < MaxRuns
    /\ runs' = [runs EXCEPT ![Get(service)] = @ + 1]
    /\ UNCHANGED <<engine, listeners, sched, cycles, prev, notified, read,
                   raised, now, flow, loaded, service, registered, phase>>

NextEntries ==
    \/ \E e \in Entries : AsyncSetupEntry(e)
    \/ \E e \in Entries : AsyncSetupEntryResume(e)
    \/ \E e \in Entries : AsyncSetupEntryReturn(e)
    \/ \E e \in Entries : AsyncSetupEntryForwardRaises(e)
    \/ \E e \in Entries : AsyncSetupEntryRaises(e)
    \/ \E e \in Entries : AsyncUnloadEntry(e)
    \/ \E e \in Entries : AsyncUnloadEntryResume(e)
    \/ CallUpdateNow

SpecEntries == Init /\ [][NextEntries]_vars

\* The engine under fair scheduling.  Each request carries timeout=10, so
\* every request in flight ends: in a reply or in TimeoutError.
NextLive ==
    \/ Budget /\ AsyncStart
    \/ Budget /\ \E id \in 1..MaxTimers : TimerCallback(id)
    \/ Budget /\ HandleUpdateNow
    \/ \E s \in Slots, reply \in Ipv4Replies : Ipv4Response(s, reply)
    \/ \E s \in Slots, reply \in Ipv6Replies : Ipv6Response(s, reply)
    \/ \E s \in Slots, reply \in PushReplies : PushResponse(s, reply)

RequestsEnd ==
    \A s \in Slots :
        /\ WF_vars(\E reply \in Ipv4Replies : Ipv4Response(s, reply))
        /\ WF_vars(\E reply \in Ipv6Replies : Ipv6Response(s, reply))
        /\ WF_vars(\E reply \in PushReplies : PushResponse(s, reply))

SpecLive == Init /\ [][NextLive]_vars /\ RequestsEnd

\* the configuration flows alone, over every text a user may enter
InitFlow ==
    /\ EngineInit
    /\ HostInit
    /\ raw \in RawInputs
    /\ token \in Tokens
    /\ errors = None
    /\ once = None
    /\ twice = None

NextFlow == AsyncStepUser \/ AsyncStepInit

SpecFlow == InitFlow /\ [][NextFlow]_vars

(***************************************************************************)
(* Properties.                                                             *)
(***************************************************************************)
\* the discovery result of the cycle in slot s when its IPv6 request ends
\* in reply: discovery returns no address, or returns at least one
Absent(s, reply) ==
    ~Escapes(reply) /\ cycles[s].ipv4 = None /\ GetIp(reply) = None
Found(s, reply) ==
    ~Escapes(reply) /\ ~(cycles[s].ipv4 = None /\ GetIp(reply) = None)
SameAsLast(s, reply) ==
    last_ipv4 = cycles[s].ipv4 /\ last_ipv6 = GetIp(reply)

\* C1: at most one async_update_dns() cycle is in flight at any time; a
\* timer-driven cycle and a manual or startup cycle never overlap.
C1_AtMostOneCycleInFlight == Cardinality(Running) <= 1

\* a step in which a cycle returns right after another one, both of them
\* non-forced, run alone, with the same discovery result holding an address
ReturnsSecondOfTwo ==
    /\ \E s \in Slots : InFlight(s) /\ cycles'[s].pc = "idle"
    /\ Counted(prev)
    /\ prev'.paired

\* C2 as claimed: two non-forced calls run one after the other with the same
\* discovery result make exactly one push call in total, whatever the state
\* before them.
C2_TwoCallsPushExactlyOnce ==
    [][ReturnsSecondOfTwo => prev.pushes + prev'.pushes = 1]_vars

\* C2 as amended: of two such calls the second never pushes, and the first
\* pushes exactly when (last_ipv4, last_ipv6) differed from the discovered
\* pair before it: one push in total then, none otherwise.
C2_SecondCallIsNoOp ==
    [][ReturnsSecondOfTwo =>
            /\ prev'.pushes = 0
            /\ prev.pushes = (IF prev.same THEN 0 ELSE 1)]_vars

\* the second of two such calls has returned without a push; the first one
\* had pushed
C2_Witness ==
    prev.paired /\ prev.first = 1 /\ prev.pushes = 0 /\ prev.same

\* C3: a forced cycle whose discovery returns at least one address makes
\* exactly one push call, whether or not the pair equals the stored one: it
\* issues the request when discovery ends, and a cycle awaiting the push
\* response has issued one request.
C3_ForcedCyclePushesOnce ==
    /\ [](\A s \in Slots : cycles[s].pc = "push" => cycles[s].pushes = 1)
    /\ [][\A s \in Slots, reply \in Ipv6Replies :
            (Ipv6Response(s, reply) /\ cycles[s].force /\ Found(s, reply))
                => cycles'[s].pc = "push" /\ cycles'[s].pushes = 1]_vars

\* a forced cycle has issued its push although discovery returned the
\* stored pair
C3_Witness ==
    \E s \in Slots :
        /\ cycles[s].pc = "push"
        /\ cycles[s].force
        /\ cycles[s].same
        /\ cycles[s].pushes = 1

\* C4: a cycle whose discovery returns no address returns at once: the six
\* state fields keep their values, no callback is invoked and no push
\* request is issued; and the fields change in no step but the one in which
\* a cycle that discovered an address ends its discovery or its push.
C4_BothAbsentChangesNothing ==
    [][/\ \A s \in Slots, reply \in Ipv6Replies :
            (Ipv6Response(s, reply) /\ Absent(s, reply))
                => /\ UNCHANGED engine
                   /\ notified' = <<>>
                   /\ cycles'[s] = Idle
       /\ (engine' # engine \/ notified' # <<>>)
            => \E s \in Slots :
                 \/ /\ cycles[s].pc = "get6"
                    /\ cycles'[s].pc = "push"
                    /\ ~(cycles'[s].ipv4 = None /\ cycles'[s].ipv6 = None)
                 \/ /\ cycles[s].pc = "push"
                    /\ cycles'[s].pc = "idle"
                    /\ ~(cycles[s].ipv4 = None /\ cycles[s].ipv6 = None)]_vars

\* a cycle that discovered nothing has returned while listeners were
\* registered and a push had been made before
C4_Witness ==
    /\ Running = {}
    /\ prev = AbsentCycle
    /\ notified = <<>>
    /\ Len(listeners) = MaxListeners
    /\ last_ipv4 # None
    /\ last_status # None
    /\ last_updated = Some(now)

\* C5: a cycle that gets past both guards invokes every registered callback
\* in registration order, a raising callback included and those after it,
\* and then issues the push request.
C5_ListenersInOrderThenPush ==
    [][\A s \in Slots, reply \in Ipv6Replies :
            (/\ Ipv6Response(s, reply)
             /\ Found(s, reply)
             /\ (cycles[s].force \/ ~SameAsLast(s, reply)))
                => /\ notified' = listeners
                   /\ cycles'[s].pc = "push"
                   /\ cycles'[s].pushes = 1]_vars

\* a raising callback was invoked, the one registered after it too, and the
\* push request is out
C5_Witness ==
    /\ notified = <<"cb_raises", "cb_ok">>
    /\ \E s \in Slots : cycles[s].pc = "push" /\ cycles[s].pushes = 1

\* C6 as claimed: once async_stop() has returned, no timer-driven cycle
\* begins (until async_start() is called again).
C6_NoTimerCycleAfterStop ==
    [][unsub_timer = None
            => \A id \in 1..MaxTimers : ~TimerCallback(id)]_vars

\* C6 as amended: once async_stop() has returned, no timer-driven cycle
\* begins, provided async_start() was never called while an earlier
\* registration was active.
C6_NoTimerCycleAfterStopOfSingleStart ==
    [][(unsub_timer = None /\ ~double_start)
            => \A id \in 1..MaxTimers : ~TimerCallback(id)]_vars

\* async_stop() has returned while a timer-driven cycle was in flight: the
\* engine had been started, its timer had fired, and no registration is left
C6_Witness ==
    /\ unsub_timer = None
    /\ ~double_start
    /\ timers = {}
    /\ \E s \in Slots : InFlight(s) /\ ~cycles[s].force

\* C7: in every reachable state last_primary_ip equals last_ipv4 when
\* last_ipv4 is present and last_ipv6 otherwise, an empty body of a 200
\* discovery reply included.
C7_PrimaryIsIpv4ElseIpv6 ==
    last_ip = (IF last_ipv4 # None THEN last_ipv4 ELSE last_ipv6)

\* C8: normalizing a normalized domain list gives the same list.
C8_NormalizeIdempotent ==
    twice # None => twice = once

\* C9: after a push attempt ended in a timeout or connection error, the next
\* timer-driven cycle whose discovery returns the same addresses issues the
\* push request again.
C9_FailedPushIsRetried ==
    [][\A s \in Slots, reply \in Ipv6Replies :
            (/\ Ipv6Response(s, reply)
             /\ ~cycles[s].force
             /\ cycles[s].solo
             /\ Counted(prev)
             /\ prev.pushes = 1
             /\ last_error # None
             /\ cycles[s].ipv4 = prev.ipv4
             /\ GetIp(reply) = prev.ipv6)
                => cycles'[s].pc = "push"]_vars

\* C10: every push attempt, whatever its outcome, leaves last_updated at the
\* time of that attempt.
C10_EveryAttemptSetsLastUpdated ==
    [][\A s \in Slots, reply \in PushReplies :
            (PushResponse(s, reply) /\ ~Escapes(reply))
                => last_updated' = Some(now')]_vars

\* C11: last_status, whenever present, is the status code of the most recent
\* push attempt: an attempt that ends in a timeout or transport error does
\* not leave the status code of an earlier attempt in it.
C11_NoStaleStatusAfterFailure ==
    [][\A s \in Slots, reply \in PushReplies :
            (PushResponse(s, reply) /\ reply.kind = "error")
                => last_status' = None]_vars

\* C12: a push attempt that completes with an HTTP response leaves
\* last_status at that response's status and last_error absent, whether the
\* status is 200 or not; one that fails with a timeout or transport error
\* leaves last_error at the failure's message; either way the call returns
\* to the update cycle, which ends normally.
C12_PushOutcomeFields ==
    [][\A s \in Slots, reply \in PushReplies :
            PushResponse(s, reply)
                => /\ reply.kind = "http"
                        => /\ last_status' = Some(reply.status)
                           /\ last_error' = None
                   /\ reply.kind = "error"
                        => last_error' = Some(reply.err)
                   /\ cycles'[s] = Idle
                   /\ ~raised']_vars

\* the values the parameter called name has in the query string url
ParamValues(url, name) ==
    {url[i][2] : i \in {j \in DOMAIN url : url[j][1] = name}}

\* C13: the push request of a cycle that discovered (ipv4, ipv6), at least
\* one of them present, carries the configured domains and token,
\* clear=true, ip equal to ipv4 when ipv4 is present and to ipv6 otherwise,
\* and an ipv6 parameter equal to ipv6 exactly when ipv6 is present.
C13_PushRequestParameters ==
    \A s \in Slots :
        cycles[s].pc = "push" =>
            LET ipv4 == cycles[s].ipv4
                ipv6 == cycles[s].ipv6
                url == PushParams(ipv4, ipv6)
            IN  /\ ParamValues(url, "domains") = Some(ConfDomains)
                /\ ParamValues(url, "token") = Some(ConfToken)
                /\ ParamValues(url, "clear") = Some(<<"t", "r", "u", "e">>)
                /\ ParamValues(url, "ip")
                        = (IF ipv4 # None THEN ipv4 ELSE ipv6)
                /\ ParamValues(url, "ipv6") = ipv6

\* C14: a cycle that passes both guards sets last_ipv4, last_ipv6 and
\* last_primary_ip to what it discovered, then notifies every listener,
\* which finds those new values, then issues the push request; the step that
\* ends the push notifies no listener.
C14_AssignThenNotifyThenPush ==
    [][/\ \A s \in Slots, reply \in Ipv6Replies :
            (/\ Ipv6Response(s, reply)
             /\ Found(s, reply)
             /\ (cycles[s].force \/ ~SameAsLast(s, reply)))
                => /\ last_ipv4' = cycles[s].ipv4
                   /\ last_ipv6' = GetIp(reply)
                   /\ last_ip' \in {last_ipv4', last_ipv6'}
                   /\ notified' = listeners
                   /\ listeners # <<>> => read' = Some(engine')
                   /\ cycles'[s].pc = "push"
       /\ \A s \in Slots :
            cycles[s].pc = "push" /\ cycles'[s].pc # "push"
                => notified' = <<>> /\ read' = None]_vars

\* the listeners have just been notified of a changed IPv4 address, which
\* they found in the engine, and the push request is out
C14_Witness ==
    /\ Len(listeners) = MaxListeners
    /\ notified = listeners
    /\ read = Some(engine)
    /\ last_ipv4 = Some(Ip4A)
    /\ last_status # None
    /\ \E s \in Slots : cycles[s].pc = "push" /\ ~cycles[s].same

\* C15: a non-forced cycle issues the push request if and only if discovery
\* returned at least one address and the pair (ipv4, ipv6) differs from
\* (last_ipv4, last_ipv6), an absent address being equal only to an absent
\* one; when it does not push it changes no state field and notifies no
\* listener.
C15_NonForcedPushIffChanged ==
    [][\A s \in Slots, reply \in Ipv6Replies :
            (Ipv6Response(s, reply) /\ ~cycles[s].force)
                => /\ cycles'[s].pc = "push"
                        <=> (Found(s, reply) /\ ~SameAsLast(s, reply))
                   /\ cycles'[s].pc # "push"
                        => /\ UNCHANGED engine
                           /\ notified' = <<>>
                           /\ cycles'[s].pc = "idle"]_vars

\* after an earlier push, a non-forced cycle has issued its own for a pair
\* that differed from the stored one and has no IPv6 address
C15_Witness ==
    \E s \in Slots :
        /\ cycles[s].pc = "push"
        /\ ~cycles[s].force
        /\ cycles[s].ipv4 = Some(Ip4A)
        /\ cycles[s].ipv6 = None
        /\ ~cycles[s].same
        /\ last_ipv6 = None
        /\ last_updated # None
        /\ Len(notified) = MaxListeners

\* C16: discovery never raises to the update cycle.  Each of its two
\* requests ends in a value, the stripped body of a 200 reply, or in absent,
\* for any other status, a timeout or a transport error; the cycle goes on
\* to the IPv6 request whatever the IPv4 request gave, and an IPv4 address
\* is kept, compared, stored and pushed when the IPv6 request fails.
C16_DiscoveryIsPartial ==
    [][/\ \A s \in Slots, reply \in Ipv4Replies :
            Ipv4Response(s, reply)
                => /\ ~raised'
                   /\ cycles'[s].pc = "get6"
                   /\ cycles'[s].ipv4 =
                        (IF reply.kind = "http" /\ reply.status = 200
                         THEN Some(Strip(reply.text)) ELSE None)
       /\ \A s \in Slots, reply \in Ipv6Replies :
            (/\ Ipv6Response(s, reply)
             /\ cycles[s].force
             /\ ~(reply.kind = "http" /\ reply.status = 200))
                => IF cycles[s].ipv4 = None
                   THEN cycles'[s] = Idle /\ UNCHANGED engine
                   ELSE /\ cycles'[s].pc = "push"
                        /\ cycles'[s].ipv4 = cycles[s].ipv4
                        /\ cycles'[s].ipv6 = None
                        /\ last_ipv4' = cycles[s].ipv4
                        /\ last_ipv6' = None
       /\ \A s \in Slots, reply \in Ipv6Replies :
            (/\ Ipv6Response(s, reply)
             /\ cycles[s].force
             /\ reply.kind = "http" /\ reply.status = 200)
                => /\ cycles'[s].pc = "push"
                   /\ cycles'[s].ipv4 = cycles[s].ipv4
                   /\ cycles'[s].ipv6 = Some(Strip(reply.text))]_vars

\* the awaits of one cycle, in the order the coroutine reaches them
Successors(pc) ==
    CASE pc = "idle" -> {"get4"}
      [] pc = "get4" -> {"get6", "idle"}
      [] pc = "get6" -> {"push", "idle"}
      [] pc = "push" -> {"idle"}

\* C17: every started update cycle eventually finishes, and nothing is
\* retried within it: the cycle moves from the IPv4 request to the IPv6
\* request to, at most, one push request and returns, whatever each request
\* ends in.
C17_CycleFinishesWithoutRetry ==
    /\ \A s \in Slots : InFlight(s) ~> ~InFlight(s)
    /\ [][\A s \in Slots :
            /\ cycles'[s].pc # cycles[s].pc
                    => cycles'[s].pc \in Successors(cycles[s].pc)
            /\ cycles'[s].pc = cycles[s].pc
                    => cycles'[s].pushes = cycles[s].pushes
            /\ cycles'[s].pushes <= 1]_vars

\* a cycle whose push request timed out has returned, with that one request
\* issued
C17_Witness ==
    /\ Running = {}
    /\ Counted(prev)
    /\ prev.pushes = 1
    /\ last_error = Some("timeout")
    /\ last_updated = None

\* C18: whenever a step of an update cycle changes an observable field, the
\* registered listeners are notified after that change before the cycle
\* ends: a step that changes a field and ends the cycle notifies them all,
\* and they find the engine as the step leaves it.
C18_ListenersSeeEveryChange ==
    [][\A s \in Slots :
            (/\ InFlight(s)
             /\ cycles'[s].pc = "idle"
             /\ engine' # engine
             /\ listeners # <<>>)
                => notified' = listeners /\ read' = Some(engine')]_vars

\* the pair the push request of the cycle in slot s carries
Pushed(s) == <<cycles[s].ipv4, cycles[s].ipv6>>

\* C19: whenever no update cycle is in flight and the most recent push
\* attempt got a response, the pair carried by the push request the endpoint
\* answered last equals (last_ipv4, last_ipv6), for every interleaving of the
\* cycles and every order in which their requests are served.
C19_RemotePairIsLastPair ==
    [][\A s \in Slots, reply \in PushReplies :
            (/\ PushResponse(s, reply)
             /\ reply.kind = "http"
             /\ Running = {s})
                => Pushed(s) = <<last_ipv4', last_ipv6'>>]_vars

\* C20: for any sequence of setting up and unloading config entries,
\* update_now is registered while at least one entry is set up, and calling
\* it runs a forced cycle on the manager of every entry that is set up and
\* on no other, in particular on none that has been stopped.
C20_UpdateNowServesLoadedEntries ==
    /\ []((\E e \in Entries : phase[e] = "set_up") => service # None)
    /\ [][CallUpdateNow =>
            \A e \in Entries :
                runs'[e] = (IF phase[e] = "set_up" THEN runs[e] + 1
                            ELSE runs[e])]_vars

====
